---- MODULE Spec2Model ----
(***************************************************************************)
(* ChargePoint to MQTT monitor (src/monitor.py).                           *)
(*                                                                         *)
(* One main thread runs ChargePointMQTTMonitor.__init__ and run(): startup *)
(* (credentials, broker connect, background loop, upstream login), then    *)
(* the poll / publish / sleep loop, then the shutdown sequence.  The       *)
(* broker client's background thread delivers connect and disconnect       *)
(* notifications, and the operating system may deliver an interrupt        *)
(* (KeyboardInterrupt) to the main thread at any point.                    *)
(*                                                                         *)
(* Value conventions.  Python strings that the code inspects character by  *)
(* character (the status string, a textual power field) are sequences of   *)
(* one-character strings; the payloads built by str() are TLA+ strings.    *)
(* A Python float is a fixed-point number counted in tenths (72 is 7.2,    *)
(* 72000 is 7200.0): every reading the model draws has one decimal, so     *)
(* float(x) * 1000.0 is exact on it.                                       *)
(***************************************************************************)
EXTENDS Integers, Sequences, FiniteSets, TLC

\* ------------------------------------------------------------------ bounds

\* poll_interval is drawn from 1..MaxInterval (seconds, one tick each).
MaxInterval == 2
\* consecutive failing listing calls are counted up to MaxFails (saturating).
MaxFails == 2

\* --------------------------------------------------------- program constants

STATUS_CHARGING == <<"C", "H", "A", "R", "G", "I", "N", "G">>
STATUS_INUSE == <<"I", "N", "U", "S", "E">>
STATUS_AVAILABLE == <<"A", "V", "A", "I", "L", "A", "B", "L", "E">>

mqtt_topic_connected == "chargepoint/connected"
mqtt_topic_power == "chargepoint/power"

\* ------------------------------------------------------------ Python values

LowerLetters == <<"a", "b", "c", "d", "e", "f", "g", "h", "i", "j", "k", "l", "m",
                  "n", "o", "p", "q", "r", "s", "t", "u", "v", "w", "x", "y", "z">>
UpperLetters == <<"A", "B", "C", "D", "E", "F", "G", "H", "I", "J", "K", "L", "M",
                  "N", "O", "P", "Q", "R", "S", "T", "U", "V", "W", "X", "Y", "Z">>
DigitChars == <<"0", "1", "2", "3", "4", "5", "6", "7", "8", "9">>

\* str.upper() on one character
UpperChar(c) ==
    IF \E i \in DOMAIN LowerLetters : LowerLetters[i] = c
    THEN UpperLetters[CHOOSE i \in DOMAIN LowerLetters : LowerLetters[i] = c]
    ELSE c

\* the status string compared as it came, `.upper()` left out
UpperLeftOut(s) == s

\* str.upper()
Upper(s) == [i \in DOMAIN s |-> UpperChar(s[i])]

IsDigit(c) == \E i \in DOMAIN DigitChars : DigitChars[i] = c
DigitVal(c) == (CHOOSE i \in DOMAIN DigitChars : DigitChars[i] = c) - 1

RECURSIVE DigitsVal(_)
\* the value of a sequence of decimal digits
DigitsVal(s) ==
    IF Len(s) = 0 THEN 0
    ELSE 10 * DigitsVal(SubSeq(s, 1, Len(s) - 1)) + DigitVal(s[Len(s)])

AllDigits(s) == Len(s) > 0 /\ \A i \in DOMAIN s : IsDigit(s[i])

\* the texts float() accepts, among those the model draws: "d+" and "d+.d"
FloatText(s) ==
    \/ AllDigits(s)
    \/ /\ Len(s) >= 3
       /\ s[Len(s) - 1] = "."
       /\ IsDigit(s[Len(s)])
       /\ AllDigits(SubSeq(s, 1, Len(s) - 2))

\* float(text), in tenths
ParseFloat(s) ==
    IF AllDigits(s) THEN 10 * DigitsVal(s)
    ELSE 10 * DigitsVal(SubSeq(s, 1, Len(s) - 2)) + DigitVal(s[Len(s)])

RECURSIVE StrNat(_)
\* str() of a non-negative int
StrNat(n) ==
    IF n < 10 THEN DigitChars[n + 1]
    ELSE StrNat(n \div 10) \o DigitChars[(n % 10) + 1]

\* str() of an int
StrInt(n) == IF n < 0 THEN "-" \o StrNat(-n) ELSE StrNat(n)

\* the power written as a whole number, str(int(power_watts))
StrFloatAsInt(x) == StrInt(x \div 10)

\* str() of a float (tenths): integer part, point, one decimal
StrFloat(x) ==
    LET a == IF x < 0 THEN -x ELSE x
    IN  (IF x < 0 THEN "-" ELSE "") \o StrNat(a \div 10) \o "." \o DigitChars[(a % 10) + 1]

\* A Python value: [t |-> type, v |-> value]; the key of a mapping may be absent.
Absent == [t |-> "absent"]
NoneValue == [t |-> "None"]
IntValue(n) == [t |-> "int", v |-> n]
FloatValue(x) == [t |-> "float", v |-> x]
StrValue(s) == [t |-> "str", v |-> s]

\* the outcome of evaluating an expression: a value, or a raised exception
Returned(x) == [raised |-> "none", val |-> x]
Raised(cls) == [raised |-> cls]

\* dict.get(key, default)
Get(field, default) == IF field.t = "absent" THEN default ELSE field

\* bool(x)
Truthy(x) ==
    CASE x.t = "None" -> FALSE
      [] x.t = "int" -> x.v # 0
      [] x.t = "float" -> x.v # 0
      [] x.t = "str" -> Len(x.v) > 0

\* float(x), in tenths
Float(x) ==
    CASE x.t = "int" -> Returned(10 * x.v)
      [] x.t = "float" -> Returned(x.v)
      [] x.t = "str" -> IF FloatText(x.v) THEN Returned(ParseFloat(x.v)) ELSE Raised("ValueError")
      [] OTHER -> Raised("TypeError")

\* ------------------------------------------------------- exception handling

\* what the upstream calls and the broker client raise
UpstreamErrors == {"ConnectionError", "ChargePointCommunicationException"}
BrokerErrors == {"OSError"}

\* a narrower clause, `except ConnectionError`
CaughtOnlyConnectionError(cls) == cls = "ConnectionError"

\* `except Exception`: every class but the BaseException-only ones
CaughtAsException(cls) == cls \notin {"KeyboardInterrupt", "SystemExit"}

\* the (0, 0.0) of `return 0, 0.0`
DefaultSnapshot == [connected |-> 0, power_watts |-> 0]

\* --------------------------------------------------- get_charger_status

\* the replies of get_charging_status: a mapping of the two fields read, or
\* something that is no mapping
NotAMapping == [kind |-> "None"]
Mapping(st, pw) == [kind |-> "dict", status |-> st, power |-> pw]

\* status.get('status', STATUS_AVAILABLE).upper()
ChargingStatus(reply) ==
    IF reply.kind # "dict" THEN Raised("AttributeError")
    ELSE LET x == Get(reply.status, StrValue(STATUS_AVAILABLE))
         IN  IF x.t = "str" THEN Returned(Upper(x.v)) ELSE Raised("AttributeError")

\* 1 if charging_status in [STATUS_CHARGING, STATUS_INUSE] else 0
ConnectedOf(charging_status) ==
    IF charging_status \in {STATUS_CHARGING, STATUS_INUSE} THEN 1 ELSE 0

\* status.get('power', 0.0) or 0.0
PowerKw(reply) ==
    LET x == Get(reply.power, FloatValue(0))
    IN  IF Truthy(x) THEN x ELSE FloatValue(0)

\* the conversion with the wrong factor, float(power_kw) * 100.0
PowerWattsTimes100(power_kw) ==
    LET f == Float(power_kw)
    IN  IF f.raised = "none" THEN Returned(f.val * 100) ELSE f

\* float(power_kw) * 1000.0
PowerWatts(power_kw) ==
    LET f == Float(power_kw)
    IN  IF f.raised = "none" THEN Returned(f.val * 1000) ELSE f

\* a conversion failure that defaults the power alone and keeps the flag
ExtractKeepsFlag(reply) ==
    LET cs == ChargingStatus(reply)
    IN  IF cs.raised # "none" THEN [resolved |-> -1, out |-> cs]
        ELSE LET c == ConnectedOf(cs.val)
                 w == PowerWatts(PowerKw(reply))
             IN  [resolved |-> c,
                  out |-> Returned([connected |-> c,
                                    power_watts |-> IF w.raised # "none" THEN 0 ELSE w.val])]

\* lines 163-177 on one reply: the resolved `connected` (-1 while unbound: the
\* status field could not be read) and the returned pair or the exception
Extract(reply) ==
    LET cs == ChargingStatus(reply)
    IN  IF cs.raised # "none" THEN [resolved |-> -1, out |-> cs]
        ELSE LET c == ConnectedOf(cs.val)
                 w == PowerWatts(PowerKw(reply))
             IN  [resolved |-> c,
                  out |-> IF w.raised # "none" THEN w
                          ELSE Returned([connected |-> c, power_watts |-> w.val])]

\* ------------------------------------------------------------------- inputs

\* str.lower() on one character
LowerChar(c) ==
    IF \E i \in DOMAIN UpperLetters : UpperLetters[i] = c
    THEN LowerLetters[CHOOSE i \in DOMAIN UpperLetters : UpperLetters[i] = c]
    ELSE c

\* every spelling of the upper-case text s in upper and lower case letters
CaseVariants(s) ==
    {[i \in DOMAIN s |-> IF m[i] = 1 THEN s[i] ELSE LowerChar(s[i])] : m \in [DOMAIN s -> {0, 1}]}

StatusStrings ==
    CaseVariants(STATUS_INUSE)
    \cup {STATUS_CHARGING,
          <<"c", "h", "a", "r", "g", "i", "n", "g">>,
          <<"C", "h", "a", "r", "g", "i", "n", "g">>,
          <<"c", "H", "a", "R", "g", "I", "n", "G">>,
          STATUS_AVAILABLE,
          <<"a", "v", "a", "i", "l", "a", "b", "l", "e">>,
          <<"C", "H", "A", "R", "G", "I", "N">>,
          <<"I", "N", "U", "S", "E", " ">>,
          <<"F", "A", "U", "L", "T">>,
          <<>>}

StatusFields == {Absent, NoneValue, IntValue(3)} \cup {StrValue(s) : s \in StatusStrings}

PowerFields ==
    {Absent, NoneValue, IntValue(0), FloatValue(72),
     StrValue(<<"7", ".", "2">>), StrValue(<<"n", "/", "a">>), StrValue(<<>>)}

Replies == {NotAMapping} \cup {Mapping(st, pw) : st \in StatusFields, pw \in PowerFields}

\* the listings of get_home_chargers: lists of device ids
Listings == {<<>>, <<1>>, <<2, 1>>}

\* ----------------------------------------------------------------- state

VARIABLES
    cp_credentials,   \* CHARGEPOINT_USERNAME and CHARGEPOINT_PASSWORD are both set
    poll_interval,    \* self.poll_interval
    pc,               \* where the main thread is
    exc,              \* the exception run() is propagating while its finally runs
    exit_code,        \* the process exit status, -1 while the process runs
    mqtt_client,      \* self.mqtt_client: "None" or "Client"
    broker_open,      \* connect() has returned and disconnect() was not called
    loop_running,     \* the broker client's background loop runs
    chargepoint,      \* self.chargepoint: "None" or "Session"
    chargers,         \* get_charger_status: the listing of this cycle
    device_id,        \* get_charger_status: chargers[0], 0 while unbound
    status,           \* get_charger_status: the reply of this cycle's status request
    poll_connected,   \* get_charger_status: `connected` as resolved on line 168
    poll_exc,         \* get_charger_status: the exception raised inside it, if any
    status_requests,  \* get_charger_status: status-detail requests it made
    requested_id,     \* get_charger_status: the id its status-detail request named
    monitored_id,     \* the id named by the latest status-detail request of an earlier cycle
    snapshot,         \* run: (connected, power_watts) as last returned by the poll
    elapsed,          \* seconds slept in the current time.sleep
    retained,         \* the broker: the retained payload of each topic
    log,              \* the last line the notification callbacks logged
    call_writes,      \* the broker writes attempted by this cycle's publish call
    interrupts,       \* interrupts delivered so far
    interrupted_at,   \* where the loop was when the first interrupt reached it
    wrote_after_interrupt, \* a broker write was attempted after an interrupt
    fail_streak,      \* consecutive cycles whose listing call raised
    connect_calls,    \* calls of mqtt_client.connect
    login_calls,      \* constructions of ChargePoint
    loop_stops,       \* calls of mqtt_client.loop_stop
    disconnects       \* calls of mqtt_client.disconnect

config == <<cp_credentials, poll_interval>>
handles == <<mqtt_client, broker_open, loop_running, chargepoint>>
locals == <<chargers, device_id, status, poll_connected, poll_exc, status_requests,
            requested_id>>
teardown == <<loop_stops, disconnects>>
startup == <<connect_calls, login_calls>>
cycle == <<call_writes, fail_streak, monitored_id>>
signals == <<interrupts, interrupted_at>>

vars == <<config, pc, exc, exit_code, handles, locals, snapshot, elapsed, retained,
          log, cycle, signals, wrote_after_interrupt, startup, teardown>>

NoReply == [kind |-> "unbound"]
NoListing == [bound |-> FALSE, ids |-> <<>>]
Listing(ids) == [bound |-> TRUE, ids |-> ids]

\* the frame of get_charger_status is gone: its variables are unbound (they
\* are kept until the loop's next step, so that what the call returned can
\* be compared with what it read)
FrameReleased ==
    /\ chargers' = NoListing
    /\ device_id' = 0
    /\ status' = NoReply
    /\ poll_connected' = -1
    /\ poll_exc' = "none"
    /\ status_requests' = 0
    /\ requested_id' = 0
NoSnapshot == [connected |-> -1, power_watts |-> -1]
Topics == {mqtt_topic_connected, mqtt_topic_power}

StartupPcs == {"init", "setup_mqtt", "setup_chargepoint"}
PollPcs == {"get_home_chargers", "get_charging_status"}
PublishPcs == {"publish_connected", "publish_power"}
LoopPcs == PollPcs \cup PublishPcs \cup {"sleep"}
ShutdownPcs == {"except_interrupt", "finally_loop_stop", "finally_disconnect"}

\* the state of the driving loop
Mode ==
    CASE pc \in StartupPcs -> "INIT"
      [] pc \in LoopPcs -> "RUNNING"
      [] pc \in ShutdownPcs -> "SHUTTING_DOWN"
      [] OTHER -> "TERMINATED"

Init ==
    /\ cp_credentials \in BOOLEAN
    /\ poll_interval \in 1..MaxInterval
    /\ pc = "init"
    /\ exc = "none"
    /\ exit_code = -1
    /\ mqtt_client = "None"
    /\ broker_open = FALSE
    /\ loop_running = FALSE
    /\ chargepoint = "None"
    /\ chargers = NoListing
    /\ device_id = 0
    /\ status = NoReply
    /\ poll_connected = -1
    /\ snapshot = NoSnapshot
    /\ elapsed = 0
    /\ retained = [t \in Topics |-> "none"]
    /\ log = "none"
    /\ poll_exc = "none"
    /\ status_requests = 0
    /\ requested_id = 0
    /\ monitored_id = 0
    /\ call_writes = <<>>
    /\ interrupts = 0
    /\ interrupted_at = "none"
    /\ wrote_after_interrupt = FALSE
    /\ fail_streak = 0
    /\ connect_calls = 0
    /\ login_calls = 0
    /\ loop_stops = 0
    /\ disconnects = 0

\* the exit status of a process ended by an exception nothing caught
UncaughtExit(cls) == IF cls = "KeyboardInterrupt" THEN 130 ELSE 1

\* sys.exit(code), or an exception leaving main(): the process ends there
Exit(code) ==
    /\ pc' = "terminated"
    /\ exit_code' = code

\* an exception reaching the try statement of run() from its body: the
\* `except KeyboardInterrupt` clause takes it or the finally clause runs with
\* it pending
RunRaise(cls) ==
    IF cls = "KeyboardInterrupt"
    THEN pc' = "except_interrupt" /\ exc' = "none"
    ELSE pc' = "finally_loop_stop" /\ exc' = cls

\* ----------------------------------------------------------------- startup

\* __init__ without the validation
CredentialsNotValidated == TRUE

\* `if not self.cp_username or not self.cp_password` does not hold
CredentialsValid == cp_credentials

\* a run() that goes to the upstream login without calling setup_mqtt
AfterConstructSkipsBroker == "setup_chargepoint"

\* run() calls setup_mqtt() first
AfterConstruct == "setup_mqtt"

\* __init__: the required credentials are validated, the handles start unset
Construct ==
    /\ pc = "init"
    /\ IF CredentialsValid
       THEN pc' = AfterConstruct /\ exit_code' = exit_code
       ELSE Exit(1)
    /\ UNCHANGED <<config, exc, handles, locals, snapshot, elapsed, retained, log,
                   cycle, signals, wrote_after_interrupt, startup, teardown>>

\* setup_mqtt: the client is created, connect() and loop_start() are called
\* once; an exception of either is logged and ends the process
SetupMqtt ==
    /\ pc = "setup_mqtt"
    /\ mqtt_client' = "Client"
    /\ connect_calls' = connect_calls + 1
    /\ \/ /\ broker_open' = TRUE
          /\ loop_running' = TRUE
          /\ pc' = "setup_chargepoint"
          /\ exit_code' = exit_code
       \/ \E e \in BrokerErrors :
             /\ Exit(IF CaughtAsException(e) THEN 1 ELSE UncaughtExit(e))
             /\ UNCHANGED <<broker_open, loop_running>>
    /\ UNCHANGED <<config, exc, chargepoint, locals, snapshot, elapsed, retained, log,
                   cycle, signals, wrote_after_interrupt, login_calls, teardown>>

\* setup_chargepoint: one login; an exception is logged and ends the process
\* (run() has not entered its try statement: nothing is torn down)
SetupChargepoint ==
    /\ pc = "setup_chargepoint"
    /\ login_calls' = login_calls + 1
    /\ \/ /\ chargepoint' = "Session"
          /\ pc' = "get_home_chargers"
          /\ exit_code' = exit_code
       \/ \E e \in UpstreamErrors :
             /\ Exit(IF CaughtAsException(e) THEN 1 ELSE UncaughtExit(e))
             /\ UNCHANGED chargepoint
    /\ UNCHANGED <<config, exc, mqtt_client, broker_open, loop_running, locals, snapshot,
                   elapsed, retained, log, cycle, signals, wrote_after_interrupt,
                   connect_calls, teardown>>

\* ------------------------------------------------------ get_charger_status

\* `if not chargers`
NoChargers(listing) == Len(listing) = 0

\* an empty listing answered with the pair of the cycle before
EmptyListingKeepsLast == snapshot

\* the `return 0, 0.0` of the empty listing
EmptyListingSnapshot == DefaultSnapshot

\* an except clause that logs and raises again
PollRaiseAgain(cls) ==
    /\ poll_exc' = cls
    /\ snapshot' = snapshot
    /\ RunRaise(cls)

\* the except clause of get_charger_status: an Exception is logged and the
\* default pair returned to the loop; anything else leaves the function
PollRaise(cls) ==
    /\ poll_exc' = cls
    /\ IF CaughtAsException(cls)
       THEN /\ snapshot' = DefaultSnapshot
            /\ pc' = "publish_connected"
            /\ exc' = exc
       ELSE /\ snapshot' = snapshot
            /\ RunRaise(cls)

\* a charger id kept from the first cycle that found one
SelectDeviceRemembered(listing) ==
    IF monitored_id # 0 THEN monitored_id ELSE listing[1]

\* device_id = chargers[0]
SelectDevice(listing) == listing[1]

\* the loop starts a cycle: get_charger_status up to the listing call and the
\* choice of the first charger
GetHomeChargers ==
    /\ pc = "get_home_chargers"
    /\ status_requests' = 0
    /\ requested_id' = 0
    /\ UNCHANGED <<monitored_id, call_writes>>
    /\ status' = NoReply
    /\ poll_connected' = -1
    /\ \/ \E e \in UpstreamErrors :
             /\ PollRaise(e)
             /\ fail_streak' = IF fail_streak < MaxFails THEN fail_streak + 1 ELSE fail_streak
             /\ UNCHANGED <<chargers, device_id>>
       \/ \E listing \in Listings :
             /\ chargers' = Listing(listing)
             /\ fail_streak' = 0
             /\ poll_exc' = "none"
             /\ exc' = exc
             /\ IF NoChargers(listing)
                THEN /\ snapshot' = EmptyListingSnapshot
                     /\ pc' = "publish_connected"
                     /\ device_id' = device_id
                ELSE /\ device_id' = SelectDevice(listing)
                     /\ pc' = "get_charging_status"
                     /\ snapshot' = snapshot
    /\ UNCHANGED <<config, exit_code, handles, elapsed, retained, log, signals,
                   wrote_after_interrupt, startup, teardown>>

\* the status request for device_id and lines 167-177 on its reply
GetChargingStatus ==
    /\ pc = "get_charging_status"
    /\ status_requests' = status_requests + 1
    /\ requested_id' = device_id
    /\ \/ \E e \in UpstreamErrors :
             /\ PollRaise(e)
             /\ UNCHANGED <<status, poll_connected>>
       \/ \E reply \in Replies :
             LET x == Extract(reply)
             IN  /\ status' = reply
                 /\ poll_connected' = x.resolved
                 /\ IF x.out.raised = "none"
                    THEN /\ snapshot' = x.out.val
                         /\ pc' = "publish_connected"
                         /\ poll_exc' = "none"
                         /\ exc' = exc
                    ELSE PollRaise(x.out.raised)
    /\ UNCHANGED <<config, exit_code, handles, chargers, device_id, elapsed, retained, log,
                   cycle, signals, wrote_after_interrupt, startup, teardown>>

\* ------------------------------------------------------------ publish_status

\* publish(self.mqtt_topic_connected, str(connected), retain=True)
ConnectedWrite(snap) ==
    [topic |-> mqtt_topic_connected, payload |-> StrInt(snap.connected), retain |-> TRUE]

\* the power write without retain=True
PowerWriteNotRetained(snap) ==
    [topic |-> mqtt_topic_power, payload |-> StrFloat(snap.power_watts), retain |-> FALSE]

\* publish(self.mqtt_topic_power, str(power_watts), retain=True)
PowerWrite(snap) ==
    [topic |-> mqtt_topic_power, payload |-> StrFloat(snap.power_watts), retain |-> TRUE]

\* a write the broker client took or raised on
Attempt(w, raised) ==
    [topic |-> w.topic, payload |-> w.payload, retain |-> w.retain, raised |-> raised]

\* the broker keeps the payload of a retained write
Deliver(w) == IF w.retain THEN [retained EXCEPT ![w.topic] = w.payload] ELSE retained

\* publish_status with one try around each write: the power write is made
\* whatever the connectivity write did
PublishRaiseContinues(cls) ==
    /\ pc' = IF pc = "publish_connected" THEN "publish_power" ELSE "sleep"
    /\ exc' = exc

\* publish_status without its except clause
PublishRaiseUncaught(cls) == RunRaise(cls)

\* the except clause of publish_status: an Exception is logged and the call
\* returns to the loop, which sleeps; anything else leaves the function
PublishRaise(cls) ==
    IF CaughtAsException(cls)
    THEN pc' = "sleep" /\ exc' = exc
    ELSE RunRaise(cls)

\* where publish_status goes after the connectivity write returned
AfterConnectedWrite == "publish_power"

\* publish_status up to the first write: the connectivity topic
PublishConnected ==
    /\ pc = "publish_connected"
    /\ FrameReleased
    /\ monitored_id' = IF status_requests > 0 THEN requested_id ELSE monitored_id
    /\ wrote_after_interrupt' = (wrote_after_interrupt \/ interrupts > 0)
    /\ LET w == ConnectedWrite(snapshot)
       IN  \/ /\ call_writes' = Append(call_writes, Attempt(w, "none"))
              /\ retained' = Deliver(w)
              /\ pc' = AfterConnectedWrite
              /\ exc' = exc
           \/ \E e \in BrokerErrors :
                 /\ call_writes' = Append(call_writes, Attempt(w, e))
                 /\ retained' = retained
                 /\ PublishRaise(e)
    /\ elapsed' = 0
    /\ UNCHANGED <<config, exit_code, handles, snapshot, log, fail_streak, signals,
                   startup, teardown>>

\* the second write of publish_status: the power topic
PublishPower ==
    /\ pc = "publish_power"
    /\ wrote_after_interrupt' = (wrote_after_interrupt \/ interrupts > 0)
    /\ LET w == PowerWrite(snapshot)
       IN  \/ /\ call_writes' = Append(call_writes, Attempt(w, "none"))
              /\ retained' = Deliver(w)
              /\ pc' = "sleep"
              /\ exc' = exc
           \/ \E e \in BrokerErrors :
                 /\ call_writes' = Append(call_writes, Attempt(w, e))
                 /\ retained' = retained
                 /\ PublishRaise(e)
    /\ elapsed' = 0
    /\ UNCHANGED <<config, exit_code, handles, locals, snapshot, log, fail_streak,
                   monitored_id, signals, startup, teardown>>

\* ---------------------------------------------------------------- the loop

\* a sleep one unit shorter than the configured interval
SleepCutShort == poll_interval - 1

\* how long time.sleep(self.poll_interval) lasts
SleepLength == poll_interval

\* one second of time.sleep passes
SleepTick ==
    /\ pc = "sleep"
    /\ elapsed < SleepLength
    /\ elapsed' = elapsed + 1
    /\ UNCHANGED <<config, pc, exc, exit_code, handles, locals, snapshot, retained, log,
                   cycle, signals, wrote_after_interrupt, startup, teardown>>

\* a loop whose body logs in again on every iteration
NextCycleLogsInAgain == "setup_chargepoint"

\* `while True` goes back to the poll; both setup calls stay above the loop
NextCycleStart == "get_home_chargers"

\* time.sleep returns and `while True` starts the next cycle
SleepReturn ==
    /\ pc = "sleep"
    /\ elapsed >= SleepLength
    /\ pc' = NextCycleStart
    /\ elapsed' = 0
    /\ call_writes' = <<>>
    /\ UNCHANGED <<config, exc, exit_code, handles, locals, snapshot, retained, log,
                   fail_streak, monitored_id, signals, wrote_after_interrupt, startup,
                   teardown>>

\* ------------------------------------------------------------- the interrupt

\* a bare `except:` in get_charger_status and publish_status would take the
\* interrupt and hand the loop its next step
InterruptSwallowed(at) ==
    CASE at \in StartupPcs -> "terminated"
      [] at \in PollPcs -> "publish_connected"
      [] at \in PublishPcs -> "sleep"
      [] at = "sleep" -> "except_interrupt"
      [] at = "except_interrupt" -> "finally_loop_stop"
      [] OTHER -> "terminated"

\* run() without its try statement: nothing catches the interrupt
InterruptUncaught(at) == "terminated"

\* where a KeyboardInterrupt raised at pc takes the main thread: outside the
\* try statement nothing catches it; inside its body the except clause does;
\* inside the except clause the finally clause still runs; inside the finally
\* clause the rest of it is skipped
InterruptTarget(at) ==
    CASE at \in StartupPcs -> "terminated"
      [] at \in LoopPcs -> "except_interrupt"
      [] at = "except_interrupt" -> "finally_loop_stop"
      [] OTHER -> "terminated"

\* the interrupt signal: KeyboardInterrupt is raised in the main thread
\* wherever it is; no `except Exception` clause catches it
KeyboardInterrupt ==
    /\ pc # "terminated"
    /\ interrupts' = interrupts + 1
    /\ interrupted_at' = IF interrupted_at = "none" /\ pc \in LoopPcs THEN pc ELSE interrupted_at
    /\ pc' = InterruptTarget(pc)
    /\ exc' = IF pc = "except_interrupt" THEN "KeyboardInterrupt" ELSE exc
    /\ exit_code' = IF InterruptTarget(pc) = "terminated"
                    THEN UncaughtExit("KeyboardInterrupt") ELSE exit_code
    /\ FrameReleased
    /\ UNCHANGED <<config, handles, snapshot, elapsed, retained, log, cycle,
                   wrote_after_interrupt, startup, teardown>>

\* ---------------------------------------------------------------- shutdown

\* a finally clause that closes the connection and never stops the loop
ExceptInterruptThenDisconnectOnly ==
    /\ pc = "except_interrupt"
    /\ pc' = "finally_disconnect"
    /\ UNCHANGED <<config, exc, exit_code, handles, locals, snapshot, elapsed, retained,
                   log, cycle, signals, wrote_after_interrupt, startup, teardown>>

\* `except KeyboardInterrupt`: the shutdown is logged
ExceptInterrupt ==
    /\ pc = "except_interrupt"
    /\ pc' = "finally_loop_stop"
    /\ UNCHANGED <<config, exc, exit_code, handles, locals, snapshot, elapsed, retained,
                   log, cycle, signals, wrote_after_interrupt, startup, teardown>>

\* finally: `if self.mqtt_client: self.mqtt_client.loop_stop()`
FinallyLoopStop ==
    /\ pc = "finally_loop_stop"
    /\ IF mqtt_client # "None"
       THEN /\ loop_running' = FALSE
            /\ loop_stops' = loop_stops + 1
            /\ pc' = "finally_disconnect"
            /\ exit_code' = exit_code
       ELSE /\ Exit(IF exc = "none" THEN 0 ELSE UncaughtExit(exc))
            /\ UNCHANGED <<loop_running, loop_stops>>
    /\ UNCHANGED <<config, exc, mqtt_client, broker_open, chargepoint, locals, snapshot,
                   elapsed, retained, log, cycle, signals, wrote_after_interrupt, startup,
                   disconnects>>

\* finally: self.mqtt_client.disconnect(); then run() and main() return, or
\* the pending exception leaves them
FinallyDisconnect ==
    /\ pc = "finally_disconnect"
    /\ broker_open' = FALSE
    /\ disconnects' = disconnects + 1
    /\ Exit(IF exc = "none" THEN 0 ELSE UncaughtExit(exc))
    /\ UNCHANGED <<config, exc, mqtt_client, loop_running, chargepoint, locals, snapshot,
                   elapsed, retained, log, cycle, signals, wrote_after_interrupt, startup,
                   loop_stops>>

\* ------------------------------------------------- notification callbacks

\* the result codes the broker client reports
ResultCodes == {0, 5}

\* _on_mqtt_connect: one log line, by result code
OnMqttConnect ==
    /\ loop_running
    /\ pc # "terminated"
    /\ \E rc \in ResultCodes :
          log' = IF rc = 0 THEN "Connected to MQTT broker"
                 ELSE "Failed to connect to MQTT broker"
    /\ UNCHANGED <<config, pc, exc, exit_code, handles, locals, snapshot, elapsed, retained,
                   cycle, signals, wrote_after_interrupt, startup, teardown>>

\* a disconnect callback that calls reconnect() on an unexpected disconnection
OnMqttDisconnectReconnects ==
    /\ loop_running
    /\ pc # "terminated"
    /\ connect_calls < 3
    /\ \E rc \in ResultCodes :
          /\ log' = IF rc # 0 THEN "Unexpected MQTT disconnection" ELSE log
          /\ connect_calls' = IF rc # 0 THEN connect_calls + 1 ELSE connect_calls
    /\ UNCHANGED <<config, pc, exc, exit_code, handles, locals, snapshot, elapsed, retained,
                   cycle, signals, wrote_after_interrupt, login_calls, teardown>>

\* _on_mqtt_disconnect: a warning when the result code is not 0
OnMqttDisconnect ==
    /\ loop_running
    /\ pc # "terminated"
    /\ \E rc \in ResultCodes :
          log' = IF rc # 0 THEN "Unexpected MQTT disconnection" ELSE log
    /\ UNCHANGED <<config, pc, exc, exit_code, handles, locals, snapshot, elapsed, retained,
                   cycle, signals, wrote_after_interrupt, startup, teardown>>

\* -------------------------------------------------------------- the program

\* the steps of the main thread
MainStep ==
    \/ Construct
    \/ SetupMqtt
    \/ SetupChargepoint
    \/ GetHomeChargers
    \/ GetChargingStatus
    \/ PublishConnected
    \/ PublishPower
    \/ SleepTick
    \/ SleepReturn
    \/ ExceptInterrupt
    \/ FinallyLoopStop
    \/ FinallyDisconnect

Next ==
    \/ MainStep
    \/ KeyboardInterrupt
    \/ OnMqttConnect
    \/ OnMqttDisconnect

Spec == Init /\ [][Next]_vars

\* the main thread keeps running while it has a step to take
LiveSpec == Spec /\ WF_vars(MainStep)

\* =================================================================== claims

\* a status reply the code cannot read: no mapping, a status field that is
\* present and no string, or a power field that is a non-empty text and no number
Malformed(reply) ==
    \/ reply.kind # "dict"
    \/ /\ reply.kind = "dict"
       /\ \/ reply.status.t \notin {"absent", "str"}
          \/ /\ reply.power.t = "str"
             /\ Len(reply.power.v) > 0
             /\ ~FloatText(reply.power.v)

\* the poll has just returned to the loop
PollReturned == pc = "publish_connected"

\* C1: an error raised by the upstream listing call or the upstream status
\* call, or by reading a malformed status reply, never escapes
\* get_charger_status: the poll returns the default snapshot (0, 0.0) to the
\* loop and the loop stays in RUNNING.
C1_PollAbsorbsErrors ==
    /\ poll_exc # "none" =>
          /\ PollReturned
          /\ snapshot = DefaultSnapshot
          /\ Mode = "RUNNING"
          /\ exit_code = -1
          /\ exc = "none"
    /\ (status # NoReply /\ Malformed(status)) =>
          /\ poll_exc # "none"
          /\ snapshot = DefaultSnapshot
    /\ (Mode = "RUNNING" /\ interrupts = 0) => exc = "none"

\* C1's case: a reply with status CHARGING and an unreadable power field was
\* replaced by the default snapshot
C1_Witness ==
    /\ PollReturned
    /\ status = Mapping(StrValue(STATUS_CHARGING), StrValue(<<"n", "/", "a">>))
    /\ poll_exc = "ValueError"
    /\ snapshot = DefaultSnapshot

\* the last broker write of this cycle's publish call raised
PublishFailed ==
    /\ Len(call_writes) > 0
    /\ call_writes[Len(call_writes)].raised # "none"

\* C2: an error raised by a broker write never escapes publish_status and
\* never halts the loop: the step on which the write raises leaves the loop
\* sleeping in RUNNING, the sleep lasts the configured interval, and unless an
\* interrupt arrives a further poll and a further publish call follow.
C2_PublishErrorsAbsorbed ==
    /\ [][(pc \in PublishPcs /\ Len(call_writes') > Len(call_writes)
            /\ call_writes'[Len(call_writes')].raised # "none")
          => (pc' = "sleep" /\ elapsed' = 0 /\ exit_code' = -1 /\ exc' = "none")]_vars
    /\ [][(pc = "sleep" /\ pc' = "get_home_chargers") => elapsed = poll_interval]_vars
    /\ (pc = "sleep" /\ PublishFailed)
          ~> (interrupts > 0 \/ (pc = "publish_connected" /\ call_writes = <<>>))
    /\ (pc = "publish_connected" /\ call_writes = <<>>)
          ~> (interrupts > 0 \/ Len(call_writes) > 0)

\* C2's case: the power write raised, the loop slept the whole interval
C2_Witness ==
    /\ pc = "sleep"
    /\ Len(call_writes) = 2
    /\ call_writes[2].raised # "none"
    /\ elapsed = poll_interval
    /\ interrupts = 0

\* the publish call of this cycle has returned to the loop
PublishReturned == pc = "sleep"

\* C3 as stated: every publish call emits exactly two broker writes, one per
\* topic, each retained, also when a write fails.
C3_TwoWritesWhateverFails ==
    PublishReturned =>
       /\ Len(call_writes) = 2
       /\ call_writes[1].topic = mqtt_topic_connected
       /\ call_writes[2].topic = mqtt_topic_power
       /\ \A i \in DOMAIN call_writes : call_writes[i].retain

\* C3 (amended): every publish call attempts the connectivity-topic write
\* and then, only if that write returned without raising, the power-topic
\* write, each with retained delivery set and whatever the broker
\* notifications reported before: two writes when the first returns, one when
\* it raises.
C3_TwoWritesUnlessFirstRaises ==
    /\ Len(call_writes) <= 2
    /\ \A i \in DOMAIN call_writes : call_writes[i].retain
    /\ Len(call_writes) >= 1 => call_writes[1].topic = mqtt_topic_connected
    /\ Len(call_writes) = 2 =>
          /\ call_writes[2].topic = mqtt_topic_power
          /\ call_writes[1].raised = "none"
    /\ pc = "publish_power" =>
          /\ Len(call_writes) = 1
          /\ call_writes[1].raised = "none"
    /\ PublishReturned =>
          /\ Len(call_writes) >= 1
          /\ Len(call_writes) = (IF call_writes[1].raised = "none" THEN 2 ELSE 1)

\* C3's case: a publish call made both writes after a disconnect notification
C3_Witness ==
    /\ PublishReturned
    /\ Len(call_writes) = 2
    /\ log = "Unexpected MQTT disconnection"
    /\ retained[mqtt_topic_power] = "7200.0"

\* C4 as stated: the shutdown sequence runs only after an interrupt observed
\* at the sleep boundary, never during the poll or between the two writes.
C4_InterruptOnlyAtSleep ==
    Mode = "SHUTTING_DOWN" => interrupted_at = "sleep"

\* C4 (amended): the interrupt is preemptive. It is observed wherever the
\* loop is (during the poll, between the two broker writes, or during the
\* sleep), the step on which it is observed starts the shutdown sequence, and
\* what remains of the cycle is abandoned: no poll step and no broker write
\* follows it. The shutdown sequence is entered only by an interrupt.
C4_InterruptPreempts ==
    /\ [][(interrupts' > interrupts /\ pc \in LoopPcs)
          => (pc' = "except_interrupt" /\ interrupted_at' = pc
              /\ call_writes' = call_writes /\ retained' = retained
              /\ snapshot' = snapshot)]_vars
    /\ [][(pc \in ShutdownPcs \cup {"terminated"})
          => (pc' \in ShutdownPcs \cup {"terminated"}
              /\ call_writes' = call_writes /\ retained' = retained)]_vars
    /\ [](Mode = "SHUTTING_DOWN" => (interrupts > 0 /\ interrupted_at \in LoopPcs))
    /\ [](~wrote_after_interrupt)

\* C4's case: the interrupt was observed between the two broker writes and
\* the shutdown sequence runs with the power write never made
C4_Witness ==
    /\ pc = "finally_disconnect"
    /\ interrupted_at = "publish_power"
    /\ Len(call_writes) = 1
    /\ loop_stops = 1

\* C5: an interrupt received while the loop sleeps stops the broker
\* background loop and closes the broker connection, the process exits with
\* status 0, and no broker write occurs after the interrupt.
C5_InterruptInSleep ==
    /\ [](interrupts = 1 /\ interrupted_at = "sleep" =>
            /\ pc \in ShutdownPcs \cup {"terminated"}
            /\ ~wrote_after_interrupt
            /\ pc = "terminated" =>
                  /\ ~loop_running
                  /\ ~broker_open
                  /\ loop_stops = 1
                  /\ disconnects = 1
                  /\ exit_code = 0)
    /\ [][(interrupts > 0 /\ interrupted_at = "sleep")
          => (call_writes' = call_writes /\ retained' = retained)]_vars
    /\ (interrupts = 1 /\ interrupted_at = "sleep") ~> (pc = "terminated" \/ interrupts > 1)

\* C5's case: interrupted in mid-sleep, the process has exited with status 0
C5_Witness ==
    /\ pc = "terminated"
    /\ interrupts = 1
    /\ interrupted_at = "sleep"
    /\ elapsed = 1
    /\ poll_interval = 2
    /\ exit_code = 0
    /\ disconnects = 1

\* a startup step has failed: the credentials are absent, connect() raised,
\* or the login raised
CredentialsAbsent == ~cp_credentials
ConnectFailed == connect_calls > 0 /\ ~broker_open /\ disconnects = 0
LoginFailed == login_calls > 0 /\ chargepoint = "None"

\* no cycle of the loop has started: nothing was polled, nothing written
NeverRan ==
    /\ snapshot = NoSnapshot
    /\ call_writes = <<>>
    /\ \A t \in Topics : retained[t] = "none"
    /\ chargers = NoListing
    /\ status_requests = 0

\* C6: startup failures are fatal and not retried: absent credentials, a
\* failed broker connect or a failed upstream login end the process with a
\* non-zero status before the loop is entered; each establishment is
\* attempted at most once and a failed step prevents every later one.
C6_StartupFailuresFatal ==
    /\ connect_calls <= 1
    /\ login_calls <= 1
    /\ CredentialsAbsent =>
          /\ pc \in {"init", "terminated"}
          /\ connect_calls = 0
          /\ login_calls = 0
    /\ ConnectFailed =>
          /\ pc = "terminated"
          /\ login_calls = 0
    /\ LoginFailed => pc = "terminated"
    /\ (CredentialsAbsent \/ ConnectFailed \/ LoginFailed) =>
          /\ NeverRan
          /\ pc = "terminated" => exit_code \notin {0, -1}
    /\ Mode = "RUNNING" => (connect_calls = 1 /\ login_calls = 1)

\* C6's case: the broker connection opened, the login failed, the process
\* ended with status 1
C6_Witness ==
    /\ LoginFailed
    /\ broker_open
    /\ pc = "terminated"
    /\ exit_code = 1
    /\ interrupts = 0

\* the text s is the upper-case text u in some letter case
SameIgnoringCase(s, u) ==
    /\ Len(s) = Len(u)
    /\ \A i \in DOMAIN s : s[i] \in {u[i], LowerChar(u[i])}

\* the reply's status field is a string naming a connected charger
NamesConnected(reply) ==
    /\ reply.status.t = "str"
    /\ \/ SameIgnoringCase(reply.status.v, STATUS_CHARGING)
       \/ SameIgnoringCase(reply.status.v, STATUS_INUSE)

\* C7: for every status string equal to CHARGING or INUSE in any letter case
\* the connected flag resolves to 1; for every other status string, and when
\* the status field is absent, it resolves to 0; the snapshot the poll
\* returns from the reply carries the resolved flag.
C7_ConnectedFromStatus ==
    (status.kind = "dict" /\ status.status.t \in {"str", "absent"}) =>
       /\ poll_connected = (IF NamesConnected(status) THEN 1 ELSE 0)
       /\ poll_exc = "none" => snapshot.connected = poll_connected
       /\ poll_exc # "none" => (Malformed(status) /\ snapshot = DefaultSnapshot)

\* C7's case: "inUSE" resolved to 1 and was returned with a zero reading
C7_Witness ==
    /\ PollReturned
    /\ status = Mapping(StrValue(<<"i", "n", "U", "S", "E">>), IntValue(0))
    /\ snapshot = [connected |-> 1, power_watts |-> 0]

\* the reply's power field is a number that is not negative
NonNegativeReading(reply) ==
    /\ reply.kind = "dict"
    /\ reply.power.t \in {"int", "float"}
    /\ reply.power.v >= 0

\* the reading in tenths of a kilowatt
ReadingTenths(reply) == IF reply.power.t = "int" THEN 10 * reply.power.v ELSE reply.power.v

\* the reply's power field is null or missing
NoReading(reply) ==
    /\ reply.kind = "dict"
    /\ reply.power.t \in {"None", "absent"}

\* C8 as stated: for every reply with a non-negative kilowatt reading the
\* snapshot's power_watts is the reading times 1000, whatever the rest of the
\* reply contains (an absent, null or non-string status field included); a null
\* or missing reading yields 0.0.
C8_WattsWhateverTheStatus ==
    /\ NonNegativeReading(status) => snapshot.power_watts = 1000 * ReadingTenths(status)
    /\ NoReading(status) => snapshot.power_watts = 0

\* C8 (amended): for every reply with a non-negative kilowatt reading whose
\* status field is absent or a string, the snapshot's power_watts is the
\* reading times 1000; when the status field is null or no string the poll
\* returns the default snapshot (power_watts 0.0) whatever the reading; a null
\* or missing reading yields 0.0.
C8_WattsWhenStatusReadable ==
    /\ (NonNegativeReading(status) /\ status.status.t \in {"absent", "str"})
          => snapshot.power_watts = 1000 * ReadingTenths(status)
    /\ (NonNegativeReading(status) /\ status.status.t \notin {"absent", "str"})
          => snapshot = DefaultSnapshot
    /\ NoReading(status) => snapshot.power_watts = 0

\* C8's case: 7.2 kW read from a reply without a status field gave 7200.0
C8_Witness ==
    /\ PollReturned
    /\ status = Mapping(Absent, FloatValue(72))
    /\ snapshot = [connected |-> 0, power_watts |-> 72000]

\* C9: when the listing is empty the poll returns exactly the default
\* snapshot and makes no status-detail request in that cycle.
C9_EmptyListing ==
    /\ chargers = Listing(<<>>) =>
          /\ PollReturned
          /\ snapshot = DefaultSnapshot
          /\ status_requests = 0
          /\ status = NoReply
          /\ poll_exc = "none"
    /\ status_requests > 0 => (chargers.bound /\ Len(chargers.ids) > 0)
    /\ status_requests <= 1

\* C9's case: the listing came back empty in a cycle after one that read
\* 7.2 kW from a connected charger
C9_Witness ==
    /\ PollReturned
    /\ chargers = Listing(<<>>)
    /\ snapshot = DefaultSnapshot
    /\ retained[mqtt_topic_connected] = "1"
    /\ retained[mqtt_topic_power] = "7200.0"

\* the listing call of this cycle raised (after fail_streak - 1 cycles in
\* which it raised too)
ListingFailing == fail_streak > 0

\* C10: while the listing call keeps failing every cycle publishes "0" on the
\* connectivity topic and "0.0" on the power topic and the loop stays in
\* RUNNING, however many failures came before: each failing listing call
\* hands the default snapshot to the publish call, every write of the cycle
\* carries it, and a publish call whose writes return leaves both topics at
\* "0" and "0.0".
C10_PinnedWhileListingFails ==
    /\ [][(pc = "get_home_chargers" /\ poll_exc' # "none")
          => (pc' = "publish_connected" /\ snapshot' = DefaultSnapshot
              /\ fail_streak' > 0 /\ exit_code' = -1 /\ exc' = "none")]_vars
    /\ [](ListingFailing =>
            /\ snapshot = DefaultSnapshot
            /\ \A i \in DOMAIN call_writes :
                  call_writes[i].payload =
                     (IF call_writes[i].topic = mqtt_topic_connected THEN "0" ELSE "0.0")
            /\ (PublishReturned /\ ~PublishFailed) =>
                  /\ Len(call_writes) = 2
                  /\ retained[mqtt_topic_connected] = "0"
                  /\ retained[mqtt_topic_power] = "0.0")
    /\ [](ListingFailing /\ interrupts = 0 => Mode = "RUNNING")

\* C10's case: the listing call failed MaxFails cycles in a row, the last
\* following a cycle that had published 7200.0, and both topics are pinned
C10_Witness ==
    /\ PublishReturned
    /\ fail_streak = MaxFails
    /\ interrupts = 0
    /\ Len(call_writes) = 2
    /\ ~PublishFailed
    /\ retained[mqtt_topic_connected] = "0"
    /\ retained[mqtt_topic_power] = "0.0"

\* the payload each topic is due from a snapshot, written out for the
\* snapshots the inputs give
DuePayload(topic, snap) ==
    IF topic = mqtt_topic_connected
    THEN (IF snap.connected = 1 THEN "1" ELSE "0")
    ELSE (IF snap.power_watts = 72000 THEN "7200.0" ELSE "0.0")

\* C11: the two broker writes of a cycle carry the two fields of the snapshot
\* that cycle's poll produced, and each snapshot is consumed by exactly one
\* publish call: {status: CHARGING, power: 7.2} gives "1" and "7200.0",
\* {status: AVAILABLE, power: 0} gives "0" and "0.0", every publish call
\* starts from a poll that has just returned, and every poll that returns is
\* followed by a publish call of what it returned.
C11_WritesCarryThisCyclesSnapshot ==
    /\ [](status = Mapping(StrValue(STATUS_CHARGING), FloatValue(72))
            => snapshot = [connected |-> 1, power_watts |-> 72000])
    /\ [](status = Mapping(StrValue(STATUS_AVAILABLE), IntValue(0))
            => snapshot = [connected |-> 0, power_watts |-> 0])
    /\ [](snapshot # NoSnapshot =>
            /\ snapshot.connected \in {0, 1}
            /\ snapshot.power_watts \in {0, 72000})
    /\ [](\A i \in DOMAIN call_writes :
            call_writes[i].payload = DuePayload(call_writes[i].topic, snapshot))
    /\ [](\A i \in DOMAIN call_writes :
            call_writes[i].raised = "none"
                => retained[call_writes[i].topic]
                     = DuePayload(call_writes[i].topic, snapshot))
    /\ [](PollReturned => call_writes = <<>>)
    /\ [][(pc' = "publish_connected" /\ pc # "publish_connected")
          => (pc \in PollPcs /\ call_writes' = <<>>)]_vars
    /\ [][(pc \in PollPcs /\ pc' \notin PollPcs /\ interrupts' = interrupts)
          => pc' = "publish_connected"]_vars
    /\ [][(pc \in PublishPcs \cup {"sleep"}) => snapshot' = snapshot]_vars

\* C11's case: a cycle that polled (1, 7200.0) wrote "1" and "7200.0", the
\* broker retains both, and the sleep that follows has run its length
C11_Witness ==
    /\ PublishReturned
    /\ snapshot = [connected |-> 1, power_watts |-> 72000]
    /\ Len(call_writes) = 2
    /\ call_writes[1].payload = "1"
    /\ call_writes[2].payload = "7200.0"
    /\ retained[mqtt_topic_connected] = "1"
    /\ retained[mqtt_topic_power] = "7200.0"
    /\ elapsed = poll_interval

\* connect() returned and loop_start() ran at some point of this execution
BrokerWasOpened == connect_calls = 1 /\ (broker_open \/ disconnects > 0)

\* the process ended on one of the two paths the claim names: its login was
\* refused during startup, or one interrupt arrived in the loop
EndedByLoginFailureOrOneLoopInterrupt ==
    /\ pc = "terminated"
    /\ \/ interrupts = 0
       \/ interrupts = 1 /\ interrupted_at # "none"

\* C12 as stated: on every path by which the process terminates after the
\* broker connection was opened - an interrupt in the loop, and also a login
\* failure during startup - the background loop has been stopped and the
\* connection closed exactly once.
C12_TeardownOnEveryExit ==
    (EndedByLoginFailureOrOneLoopInterrupt /\ BrokerWasOpened)
        => (loop_stops = 1 /\ disconnects = 1)

\* C12: both handles are created exactly once before the loop begins and no
\* loop iteration replaces or re-creates them; the loop is stopped and the
\* connection closed at most once, the stop first; a process that ends on one
\* interrupt in the loop has done both exactly once, and a process whose
\* login fails during startup exits with neither done, the connection opened
\* by setup_mqtt left as it was.
C12_TeardownOnLoopExitOnly ==
    /\ [](connect_calls <= 1 /\ login_calls <= 1)
    /\ [](loop_stops <= 1 /\ disconnects <= loop_stops)
    /\ [](Mode = "RUNNING" =>
            /\ connect_calls = 1 /\ login_calls = 1
            /\ mqtt_client = "Client" /\ chargepoint = "Session"
            /\ broker_open /\ loop_running)
    /\ [][(pc \in LoopPcs) => (handles' = handles /\ startup' = startup)]_vars
    /\ []((pc = "terminated" /\ interrupts = 1 /\ interrupted_at # "none") =>
            /\ loop_stops = 1 /\ disconnects = 1
            /\ ~loop_running /\ ~broker_open)
    /\ []((pc = "terminated" /\ LoginFailed /\ interrupts = 0) =>
            /\ BrokerWasOpened
            /\ loop_stops = 0 /\ disconnects = 0
            /\ loop_running /\ broker_open)

\* C12's case: after at least one whole cycle an interrupt ended the loop and
\* the teardown ran once
C12_Witness ==
    /\ pc = "terminated"
    /\ interrupts = 1
    /\ interrupted_at = "sleep"
    /\ retained[mqtt_topic_power] # "none"
    /\ connect_calls = 1 /\ login_calls = 1
    /\ loop_stops = 1 /\ disconnects = 1

\* some broker write has been attempted in this execution
WriteAttempted ==
    \/ Len(call_writes) > 0
    \/ \E t \in Topics : retained[t] # "none"
    \/ pc = "publish_power"

\* C13: no broker write is attempted before the broker connection has been
\* established: nothing is written during startup, the login is made with the
\* connection open and the background loop started, every write is attempted
\* with connect() returned, the background loop started and the upstream
\* session established, each by its single call.
C13_NoWriteBeforeConnect ==
    /\ [](pc \in StartupPcs => ~WriteAttempted)
    /\ [](WriteAttempted =>
            /\ connect_calls = 1 /\ mqtt_client = "Client"
            /\ login_calls = 1 /\ chargepoint = "Session")
    /\ [][(login_calls' # login_calls)
          => (connect_calls = 1 /\ broker_open /\ loop_running)]_vars
    /\ [][(call_writes' # call_writes /\ call_writes' # <<>>)
          => (/\ pc \in PublishPcs
              /\ connect_calls = 1 /\ broker_open /\ loop_running
              /\ mqtt_client = "Client" /\ chargepoint = "Session")]_vars

\* C13's case: the first write of the execution has just been made, on the
\* open connection
C13_Witness ==
    /\ pc = "publish_power"
    /\ Len(call_writes) = 1
    /\ call_writes[1].raised = "none"
    /\ retained[mqtt_topic_power] = "none"
    /\ broker_open /\ loop_running
    /\ chargepoint = "Session"

\* the steps the loop may take from each of its positions while it stays in
\* RUNNING: poll, then publish call, then sleep, then the next poll
CycleOrder ==
    [get_home_chargers   |-> {"get_home_chargers", "get_charging_status", "publish_connected"},
     get_charging_status |-> {"get_charging_status", "publish_connected"},
     publish_connected   |-> {"publish_connected", "publish_power", "sleep"},
     publish_power       |-> {"publish_power", "sleep"},
     sleep               |-> {"sleep", "get_home_chargers"}]

\* C14: in RUNNING every cycle is one poll, then one publish call, then one
\* sleep of the configured interval, in that order: the loop leaves the poll
\* only into the publish call, the publish call only into the sleep, the
\* sleep only into the next poll and only after the whole interval, whether
\* the poll or the publish succeeded or failed; nothing but an interrupt
\* takes the loop out of RUNNING.
C14_PollPublishSleep ==
    /\ [][(pc \in LoopPcs /\ pc' \in LoopPcs) => pc' \in CycleOrder[pc]]_vars
    /\ [][(pc \in LoopPcs /\ pc' \notin LoopPcs)
          => (pc' = "except_interrupt" /\ interrupts' = interrupts + 1)]_vars
    /\ [][(pc \in PublishPcs /\ pc' = "sleep") => elapsed' = 0]_vars
    /\ [][(pc = "sleep" /\ pc' = "sleep")
          => (elapsed' = elapsed \/ (elapsed' = elapsed + 1 /\ elapsed < poll_interval))]_vars
    /\ [][(pc = "sleep" /\ pc' = "get_home_chargers") => elapsed = poll_interval]_vars
    /\ [](pc = "sleep" => (elapsed <= poll_interval /\ Len(call_writes) \in {1, 2}))
    /\ [](pc \in LoopPcs \ {"sleep"} => elapsed = 0)

\* C14's case: a cycle whose poll failed and whose publish call failed has
\* slept the whole interval all the same
C14_Witness ==
    /\ pc = "sleep"
    /\ elapsed = poll_interval
    /\ poll_interval = MaxInterval
    /\ fail_streak > 0
    /\ PublishFailed
    /\ interrupts = 0

\* all of the state but the line the callbacks log
BesidesLog ==
    <<config, pc, exc, exit_code, handles, locals, snapshot, elapsed, retained,
      cycle, signals, wrote_after_interrupt, startup, teardown>>

\* C15: broker connect and disconnect notifications cause no corrective
\* action: a step of either callback, with either result code and at any
\* point of the program, changes nothing but the logged line - the loop
\* position, the session handles, the pending snapshot, the broker writes,
\* the connect calls and the exit status stay as they were.
C15_NotificationsOnlyLog ==
    /\ [][(OnMqttConnect \/ OnMqttDisconnect \/ log' # log)
          => BesidesLog' = BesidesLog]_vars
    /\ [](log \in {"none", "Connected to MQTT broker",
                   "Failed to connect to MQTT broker",
                   "Unexpected MQTT disconnection"})
    /\ [](log # "none" => connect_calls = 1)

\* C15's case: a failed-connect notification has been logged and the loop is
\* between the two broker writes of a later cycle, connection and exit status
\* untouched
C15_Witness ==
    /\ log = "Failed to connect to MQTT broker"
    /\ pc = "publish_power"
    /\ Len(call_writes) = 1
    /\ retained[mqtt_topic_power] # "none"
    /\ broker_open /\ loop_running
    /\ exit_code = -1

\* C16: the monitored charger is re-resolved on every cycle: the
\* status-detail request of a cycle names the first id of the listing that
\* same cycle returned, whatever id the cycle before asked about, and no
\* request is made in a cycle whose listing failed or came back empty.
C16_FirstOfThisCyclesListing ==
    /\ [][(status_requests' > status_requests)
          => (/\ chargers.bound /\ chargers' = chargers
              /\ Len(chargers.ids) > 0
              /\ requested_id' = chargers.ids[1])]_vars
    /\ [](pc = "get_charging_status" =>
            (chargers.bound /\ Len(chargers.ids) > 0 /\ device_id = chargers.ids[1]))
    /\ [](status_requests > 0 =>
            (/\ chargers.bound /\ Len(chargers.ids) > 0
             /\ requested_id = chargers.ids[1]))
    /\ [](status_requests = 0 => requested_id = 0)

\* C16's case: the listing now starts with another charger than the one the
\* cycle before asked about, and the request of this cycle named the new one
C16_Witness ==
    /\ PollReturned
    /\ status_requests = 1
    /\ chargers = Listing(<<2, 1>>)
    /\ monitored_id = 1
    /\ requested_id = 2

\* the broker writes the interrupted cycle had made when the interrupt came
WritesMadeWhenInterruptedAt ==
    [get_home_chargers   |-> {0},
     get_charging_status |-> {0},
     publish_connected   |-> {0},
     publish_power       |-> {1},
     sleep               |-> {1, 2}]

\* C17: an interrupt arriving at any point inside the loop - during the poll,
\* between the two broker writes, or during the sleep - is followed by the
\* shutdown sequence, the background loop stopped and then the connection
\* closed, and by no broker write; the only writes never made are those the
\* interrupted cycle still had to make. Unless a further interrupt arrives
\* during the shutdown, the process ends with both done and status 0.
C17_InterruptThenShutdown ==
    /\ [][(interrupts' # interrupts /\ pc \in LoopPcs)
          => (pc' = "except_interrupt" /\ retained' = retained)]_vars
    /\ [][(interrupted_at # "none")
          => (/\ call_writes' = call_writes
              /\ retained' = retained
              /\ pc' \in ShutdownPcs \cup {"terminated"})]_vars
    /\ [][(disconnects' # disconnects)
          => (loop_stops = 1 /\ ~loop_running /\ disconnects = 0)]_vars
    /\ [](interrupted_at # "none" =>
            /\ interrupted_at \in LoopPcs
            /\ Len(call_writes) \in WritesMadeWhenInterruptedAt[interrupted_at])
    /\ []((pc = "terminated" /\ interrupted_at # "none" /\ interrupts = 1) =>
            /\ loop_stops = 1 /\ disconnects = 1
            /\ ~loop_running /\ ~broker_open
            /\ exit_code = 0)
    /\ (interrupted_at # "none" /\ interrupts = 1)
          ~> ((pc = "terminated" /\ loop_stops = 1 /\ disconnects = 1)
              \/ interrupts > 1)

\* C17's case: the interrupt came during the poll of a later cycle, the
\* shutdown ran in order, and the broker keeps what the cycle before wrote
C17_Witness ==
    /\ pc = "terminated"
    /\ interrupted_at = "get_charging_status"
    /\ interrupts = 1
    /\ call_writes = <<>>
    /\ retained[mqtt_topic_power] = "7200.0"
    /\ loop_stops = 1 /\ disconnects = 1
    /\ exit_code = 0

\* the watts a readable power field stands for, in tenths
WattsOfReply(reply) ==
    CASE reply.power.t \in {"absent", "None"} -> 0
      [] reply.power.t \in {"int", "float"} -> 1000 * ReadingTenths(reply)
      [] reply.power = StrValue(<<"7", ".", "2">>) -> 72000
      [] OTHER -> 0

\* C18: a snapshot returned by the poll is all-or-nothing: when reading the
\* reply raised nothing, connected and power_watts both come from that reply;
\* when reading or converting either field raised, the snapshot is exactly
\* the default (0, 0.0), also when the flag had already resolved to 1.
C18_AllOrNothing ==
    (PollReturned /\ status_requests > 0) =>
        /\ poll_exc = "none" =>
              /\ status.kind = "dict"
              /\ snapshot.connected = (IF NamesConnected(status) THEN 1 ELSE 0)
              /\ snapshot.power_watts = WattsOfReply(status)
        /\ poll_exc # "none" => snapshot = DefaultSnapshot
        /\ (status # NoReply /\ Malformed(status)) => snapshot = DefaultSnapshot

\* C18's case: the status read CHARGING, the flag resolved to 1, the power
\* text could not be converted, and the poll returned (0, 0.0)
C18_Witness ==
    /\ PollReturned
    /\ status = Mapping(StrValue(STATUS_CHARGING), StrValue(<<"n", "/", "a">>))
    /\ poll_connected = 1
    /\ poll_exc = "ValueError"
    /\ snapshot = DefaultSnapshot

\* C19: within one publish call the connectivity-topic write precedes the
\* power-topic write, and the power-topic write is attempted only if the
\* connectivity-topic write returned without raising; when the first write
\* raises, the call returns normally into the sleep and the power topic keeps
\* the value retained from an earlier cycle.
C19_ConnectivityThenPower ==
    /\ [](Len(call_writes) <= 2)
    /\ [](Len(call_writes) >= 1 => call_writes[1].topic = mqtt_topic_connected)
    /\ [](Len(call_writes) = 2 =>
            /\ call_writes[2].topic = mqtt_topic_power
            /\ call_writes[1].raised = "none")
    /\ [](pc = "publish_power" =>
            (Len(call_writes) = 1 /\ call_writes[1].raised = "none"))
    /\ [][(pc = "publish_connected" /\ Len(call_writes') = 1
            /\ call_writes'[1].raised # "none")
          => (pc' = "sleep" /\ exc' = "none" /\ exit_code' = -1)]_vars
    /\ [][(Len(call_writes') = 1 /\ call_writes'[1].raised # "none")
          => retained'[mqtt_topic_power] = retained[mqtt_topic_power]]_vars
    /\ [][(pc = "publish_connected")
          => retained'[mqtt_topic_power] = retained[mqtt_topic_power]]_vars

\* C19's case: the connectivity write of a (0, 0.0) cycle raised, no power
\* write was attempted, and the broker still retains "1" and "7200.0"
C19_Witness ==
    /\ pc = "sleep"
    /\ snapshot = [connected |-> 0, power_watts |-> 0]
    /\ Len(call_writes) = 1
    /\ call_writes[1].topic = mqtt_topic_connected
    /\ call_writes[1].raised # "none"
    /\ retained[mqtt_topic_connected] = "1"
    /\ retained[mqtt_topic_power] = "7200.0"
    /\ exit_code = -1

====
